---- MODULE Spec2Model ----
(***************************************************************************)
(* A model of dulwich/patch.py: the unified-diff formatter, the object and *)
(* tree diff writers, the patch-mail writer and the git-am patch parser.   *)
(*                                                                         *)
(* Byte strings are sequences of one-character strings, so that prefixes,  *)
(* line terminators and concatenation are what they are in the program.    *)
(* Indices of the diff machinery are 0-based half-open ranges as in the    *)
(* source; a[i+1] is the source's a[i].                                    *)
(***************************************************************************)
EXTENDS Integers, Sequences, FiniteSets, TLC

(***************************************************************************)
(* Byte-string helpers.                                                    *)
(***************************************************************************)
NL == "\n"

\* None, where the program has a byte string or None
None == <<"None">>

\* None, where the program has a mode or None
NoMode == -1

RECURSIVE Concat(_)
\* b''.join(parts): the bytes a sequence of writes leaves in a file.
Concat(parts) ==
    IF parts = <<>> THEN <<>> ELSE Head(parts) \o Concat(Tail(parts))

\* s[k:] for a 0-based k
Drop(s, k) == SubSeq(s, k + 1, Len(s))

\* s[:k]
Take(s, k) == SubSeq(s, 1, IF k < Len(s) THEN k ELSE Len(s))

\* s.startswith(p)
StartsWith(s, p) == Len(s) >= Len(p) /\ SubSeq(s, 1, Len(p)) = p

\* s.endswith(p)
EndsWith(s, p) ==
    Len(s) >= Len(p) /\ SubSeq(s, Len(s) - Len(p) + 1, Len(s)) = p

IsPrefix(p, s) == StartsWith(s, p)

DigitChar == <<"0", "1", "2", "3", "4", "5", "6", "7", "8", "9">>

RECURSIVE Dec(_)
\* "%d" % k for k >= 0
Dec(k) ==
    IF k < 10 THEN <<DigitChar[k + 1]>>
    ELSE Dec(k \div 10) \o <<DigitChar[(k % 10) + 1]>>

RECURSIVE Oct(_)
\* "%o" % k for k >= 0
Oct(k) ==
    IF k < 8 THEN <<DigitChar[k + 1]>>
    ELSE Oct(k \div 8) \o <<DigitChar[(k % 8) + 1]>>

(***************************************************************************)
(* difflib.SequenceMatcher(None, a, b), as unified_diff uses it: no junk   *)
(* function, and the automatic junk heuristic is off below 200 elements.   *)
(***************************************************************************)
RECURSIVE MatchLen(_, _, _, _, _, _)
\* length of the common run of a[i:ahi] and b[j:bhi]
MatchLen(a, b, i, j, ahi, bhi) ==
    IF i < ahi /\ j < bhi /\ a[i + 1] = b[j + 1]
    THEN 1 + MatchLen(a, b, i + 1, j + 1, ahi, bhi)
    ELSE 0

\* The longest matching block in a[alo:ahi], b[blo:bhi]: of the longest, the
\* one starting earliest in a, and of those the one starting earliest in b.
find_longest_match(a, b, alo, ahi, blo, bhi) ==
    LET cand == {c \in (alo .. ahi - 1) \X (blo .. bhi - 1) :
                    a[c[1] + 1] = b[c[2] + 1]}
        len(c) == MatchLen(a, b, c[1], c[2], ahi, bhi)
    IN  IF cand = {} THEN <<alo, blo, 0>>
        ELSE LET best == CHOOSE c \in cand : \A d \in cand :
                            \/ len(c) > len(d)
                            \/ /\ len(c) = len(d)
                               /\ \/ c[1] < d[1]
                                  \/ c[1] = d[1] /\ c[2] <= d[2]
             IN  <<best[1], best[2], len(best)>>

RECURSIVE MatchRec(_, _, _, _, _, _)
\* The blocks the queue of get_matching_blocks collects, sorted.
MatchRec(a, b, alo, ahi, blo, bhi) ==
    LET m == find_longest_match(a, b, alo, ahi, blo, bhi)
        i == m[1]
        j == m[2]
        k == m[3]
    IN  IF k = 0 THEN <<>>
        ELSE (IF alo < i /\ blo < j
              THEN MatchRec(a, b, alo, i, blo, j) ELSE <<>>)
             \o <<m>>
             \o (IF i + k < ahi /\ j + k < bhi
                 THEN MatchRec(a, b, i + k, ahi, j + k, bhi) ELSE <<>>)

RECURSIVE Collapse(_, _, _)
\* get_matching_blocks' pass that merges adjacent blocks; cur is (i1, j1, k1).
Collapse(blocks, idx, cur) ==
    IF idx > Len(blocks)
    THEN (IF cur[3] > 0 THEN <<cur>> ELSE <<>>)
    ELSE LET nxt == blocks[idx]
         IN  IF cur[1] + cur[3] = nxt[1] /\ cur[2] + cur[3] = nxt[2]
             THEN Collapse(blocks, idx + 1,
                           <<cur[1], cur[2], cur[3] + nxt[3]>>)
             ELSE (IF cur[3] > 0 THEN <<cur>> ELSE <<>>)
                  \o Collapse(blocks, idx + 1, nxt)

get_matching_blocks(a, b) ==
    Collapse(MatchRec(a, b, 0, Len(a), 0, Len(b)), 1, <<0, 0, 0>>)
    \o <<<<Len(a), Len(b), 0>>>>

RECURSIVE OpcodeLoop(_, _, _, _)
\* the loop of get_opcodes; an opcode is <<tag, i1, i2, j1, j2>>
OpcodeLoop(blocks, idx, i, j) ==
    IF idx > Len(blocks) THEN <<>>
    ELSE LET ai == blocks[idx][1]
             bj == blocks[idx][2]
             size == blocks[idx][3]
             tag == IF i < ai /\ j < bj THEN "replace"
                    ELSE IF i < ai THEN "delete"
                    ELSE IF j < bj THEN "insert"
                    ELSE ""
         IN  (IF tag # "" THEN <<<<tag, i, ai, j, bj>>>> ELSE <<>>)
             \o (IF size > 0
                 THEN <<<<"equal", ai, ai + size, bj, bj + size>>>>
                 ELSE <<>>)
             \o OpcodeLoop(blocks, idx + 1, ai + size, bj + size)

get_opcodes(a, b) == OpcodeLoop(get_matching_blocks(a, b), 1, 0, 0)

Max(x, y) == IF x > y THEN x ELSE y

Min(x, y) == IF x < y THEN x ELSE y

\* "Fixup leading and trailing groups if they show no changes."
FixEnds(codes0, n) ==
    LET codes == IF codes0 = <<>> THEN <<<<"equal", 0, 1, 0, 1>>>> ELSE codes0
        c1 == codes[1]
        lead == IF c1[1] = "equal"
                THEN [codes EXCEPT ![1] =
                        <<"equal", Max(c1[2], c1[3] - n), c1[3],
                          Max(c1[4], c1[5] - n), c1[5]>>]
                ELSE codes
        cl == lead[Len(lead)]
    IN  IF cl[1] = "equal"
        THEN [lead EXCEPT ![Len(lead)] =
                <<"equal", cl[2], Min(cl[3], cl[2] + n),
                  cl[4], Min(cl[5], cl[4] + n)>>]
        ELSE lead

RECURSIVE GroupLoop(_, _, _, _)
\* the loop of get_grouped_opcodes: the groups it yields
GroupLoop(codes, idx, group, n) ==
    IF idx > Len(codes)
    THEN (IF group # <<>> /\ ~(Len(group) = 1 /\ group[1][1] = "equal")
          THEN <<group>> ELSE <<>>)
    ELSE LET c == codes[idx]
         IN  IF c[1] = "equal" /\ c[3] - c[2] > n + n
             THEN <<Append(group, <<"equal", c[2], Min(c[3], c[2] + n),
                                    c[4], Min(c[5], c[4] + n)>>)>>
                  \o GroupLoop(codes, idx + 1,
                               <<<<"equal", Max(c[2], c[3] - n), c[3],
                                   Max(c[4], c[5] - n), c[5]>>>>, n)
             ELSE GroupLoop(codes, idx + 1, Append(group, c), n)

get_grouped_opcodes(a, b, n) ==
    GroupLoop(FixEnds(get_opcodes(a, b), n), 1, <<>>, n)

(***************************************************************************)
(* unified_diff (patch.py 80-107), a generator: each resumption runs one   *)
(* iteration of its loop over the groups and yields that group's lines.    *)
(***************************************************************************)
\* b'\\ No newline at end of file\n'
NoNewlineMarker ==
    <<"\\", " ", "N", "o", " ", "n", "e", "w", "l", "i", "n", "e", " ",
      "a", "t", " ", "e", "n", "d", " ", "o", "f", " ", "f", "i", "l", "e",
      NL>>

\* line[-1:] == b'\n'
EndsWithNewline(line) == line # <<>> /\ line[Len(line)] = NL

\* patch.py 88: b'--- ' + fromfile + b'\n'
FromHeader(fromfile) == <<"-", "-", "-", " ">> \o fromfile \o <<NL>>

\* patch.py 89: b'+++ ' + tofile + b'\n'
ToHeader(tofile) == <<"+", "+", "+", " ">> \o tofile \o <<NL>>

\* RangeHeader with the 0-based indices printed as they are
RangeHeaderZeroBased(group) ==
    LET i1 == group[1][2]
        i2 == group[Len(group)][3]
        j1 == group[1][4]
        j2 == group[Len(group)][5]
    IN  <<"@", "@", " ", "-">> \o Dec(i1) \o <<",">> \o Dec(i2 - i1)
        \o <<" ", "+">> \o Dec(j1) \o <<",">> \o Dec(j2 - j1)
        \o <<" ", "@", "@", NL>>

\* patch.py 91-92: "@@ -%d,%d +%d,%d @@\n" over the group's outer bounds
RangeHeader(group) ==
    LET i1 == group[1][2]
        i2 == group[Len(group)][3]
        j1 == group[1][4]
        j2 == group[Len(group)][5]
    IN  <<"@", "@", " ", "-">> \o Dec(i1 + 1) \o <<",">> \o Dec(i2 - i1)
        \o <<" ", "+">> \o Dec(j1 + 1) \o <<",">> \o Dec(j2 - j1)
        \o <<" ", "@", "@", NL>>

\* patch.py 95-96: an equal line is yielded as it is
EqualLine(line) == <<" ">> \o line

\* patch.py 99-102
MinusLine(line) ==
    <<"-">> \o (IF ~EndsWithNewline(line)
                THEN line \o <<NL>> \o NoNewlineMarker ELSE line)

\* patch.py 104-107
PlusLine(line) ==
    <<"+">> \o (IF ~EndsWithNewline(line)
                THEN line \o <<NL>> \o NoNewlineMarker ELSE line)

\* patch.py 93-107 for one opcode
OpcodeLines(a, b, op) ==
    LET tag == op[1]
        olds == SubSeq(a, op[2] + 1, op[3])
        news == SubSeq(b, op[4] + 1, op[5])
    IN  IF tag = "equal"
        THEN [k \in 1 .. Len(olds) |-> EqualLine(olds[k])]
        ELSE (IF tag = "replace" \/ tag = "delete"
              THEN [k \in 1 .. Len(olds) |-> MinusLine(olds[k])] ELSE <<>>)
             \o (IF tag = "replace" \/ tag = "insert"
                 THEN [k \in 1 .. Len(news) |-> PlusLine(news[k])] ELSE <<>>)

RECURSIVE GroupLines(_, _, _, _)
\* patch.py 93: for tag, i1, i2, j1, j2 in group
GroupLines(a, b, group, idx) ==
    IF idx > Len(group) THEN <<>>
    ELSE OpcodeLines(a, b, group[idx]) \o GroupLines(a, b, group, idx + 1)

\* HeaderLines without the started test: the file headers before every group
HeaderLinesEveryGroup(started, fromfile, tofile) ==
    <<FromHeader(fromfile), ToHeader(tofile)>>

\* patch.py 87-90: what one iteration yields before the range header
HeaderLines(started, fromfile, tofile) ==
    IF ~started THEN <<FromHeader(fromfile), ToHeader(tofile)>> ELSE <<>>

\* patch.py 87-107: everything one iteration of the outer loop yields
GroupOutput(a, b, group, started, fromfile, tofile) ==
    HeaderLines(started, fromfile, tofile)
    \o <<RangeHeader(group)>>
    \o GroupLines(a, b, group, 1)

RECURSIVE DiffLoop(_, _, _, _, _, _)
DiffLoop(a, b, groups, started, fromfile, tofile) ==
    IF groups = <<>> THEN <<>>
    ELSE GroupOutput(a, b, Head(groups), started, fromfile, tofile)
         \o DiffLoop(a, b, Tail(groups), TRUE, fromfile, tofile)

\* list(unified_diff(a, b, fromfile, tofile, n))
unified_diff(a, b, fromfile, tofile, n) ==
    DiffLoop(a, b, get_grouped_opcodes(a, b, n), FALSE, fromfile, tofile)

(***************************************************************************)
(* Splitting bytes into lines.                                             *)
(***************************************************************************)
CR == "\r"

RECURSIVE SortedSeq(_)
SortedSeq(S) ==
    IF S = {} THEN <<>>
    ELSE LET m == CHOOSE x \in S : \A y \in S : x <= y
         IN  <<m>> \o SortedSeq(S \ {m})

\* the pieces of s that end at the (1-based, ascending) positions in cuts,
\* and the unterminated rest
CutAt(s, cuts) ==
    LET m == Len(cuts)
        from(k) == IF k = 1 THEN 1 ELSE cuts[k - 1] + 1
        last == IF m = 0 THEN 0 ELSE cuts[m]
    IN  [k \in 1 .. m |-> SubSeq(s, from(k), cuts[k])]
        \o (IF last < Len(s) THEN <<SubSeq(s, last + 1, Len(s))>> ELSE <<>>)

\* iterating a BytesIO, f.readlines(): lines end after each b'\n'
ReadLines(s) ==
    CutAt(s, SortedSeq({i \in 1 .. Len(s) : s[i] = NL}))

\* bytes.splitlines(True): lines end after b'\n', b'\r\n' or a lone b'\r'
splitlines(s) ==
    CutAt(s, SortedSeq({i \in 1 .. Len(s) :
                \/ s[i] = NL
                \/ s[i] = CR /\ (i = Len(s) \/ s[i + 1] # NL)}))

(***************************************************************************)
(* State.                                                                  *)
(***************************************************************************)
VARIABLES
    \* unified_diff: its arguments, the groups its loop has still to visit,
    \* its local started, the lines yielded so far, and where it stands
    ud_a, ud_b, ud_fromfile, ud_tofile, ud_n, ud_groups, started, ud_out,
    ud_pc,
    \* write_tree_diff / write_object_diff: the ids the store holds, the
    \* diff_binary argument, the change tuples, the index of the tuple being
    \* written, the bytes written to f, the resolved contents, the store
    \* lookups made so far, and where the writer stands
    present, diff_binary, changes, ck, f, old_content, new_content, fetched,
    wod_pc,
    \* write_commit_patch / git_am_patch_split: the writer's arguments and
    \* environment, the bytes of the patch file, the parser's result, and
    \* where the run stands
    commit, contents, progress, version, diffstat, mbox, result, am_pc

udVars == <<ud_a, ud_b, ud_fromfile, ud_tofile, ud_n, ud_groups, started,
            ud_out, ud_pc>>

wodVars == <<present, diff_binary, changes, ck, f, old_content, new_content,
             fetched, wod_pc>>

amVars == <<commit, contents, progress, version, diffstat, mbox, result,
            am_pc>>

vars == <<udVars, wodVars, amVars>>

\* the parts of the state a run of another entry point never touches
UdIdle ==
    /\ ud_a = <<>> /\ ud_b = <<>> /\ ud_fromfile = <<>> /\ ud_tofile = <<>>
    /\ ud_n = 0 /\ ud_groups = <<>> /\ started = FALSE /\ ud_out = <<>>
    /\ ud_pc = "idle"

WodIdle ==
    /\ present = {} /\ diff_binary = FALSE /\ changes = <<>> /\ ck = 0
    /\ f = <<>> /\ old_content = <<>> /\ new_content = <<>>
    /\ fetched = <<>> /\ wod_pc = "idle"

\* no call has returned or raised yet
NoResult ==
    [status |-> "none", exc |-> "", author |-> None, committer |-> None,
     message |-> None, diff |-> None, version |-> None]

\* a call raised exc and returned nothing
Raised(exc) == [NoResult EXCEPT !.status = "raised", !.exc = exc]

\* a run that parses given bytes has no commit to write
NoCommit == [id |-> None, author |-> None, message |-> None]

AmIdle ==
    /\ commit = NoCommit /\ contents = None /\ progress = <<0, 0>>
    /\ version = None /\ diffstat = "unavailable" /\ mbox = <<>>
    /\ result = NoResult /\ am_pc = "idle"

(***************************************************************************)
(* unified_diff as a state machine.                                        *)
(***************************************************************************)
\* patch.py 80: n=3
DefaultContext == 3

\* the longest line sequence of the exhaustive inputs
MaxLines == 3

TermLines == {<<"x", NL>>, <<"y", NL>>}

BareLines == {<<"x">>, <<"y">>}

\* line sequences of at most k lines, every line newline-terminated
TermSeqs(k) == UNION {[1 .. m -> TermLines] : m \in 0 .. k}

\* ... except possibly the last line
LineSeqs(k) ==
    TermSeqs(k)
    \cup {Append(s, l) : s \in TermSeqs(k - 1), l \in BareLines}

\* 2n+1 distinct common lines: the shortest unchanged run that makes
\* get_grouped_opcodes split two changes into two groups at n = 3
CommonRun ==
    [i \in 1 .. (2 * DefaultContext + 1) |-> <<DigitChar[i + 1], NL>>]

\* inputs with a change on each side of a long unchanged run
SplitInputs == {p \o CommonRun \o s : p \in TermSeqs(1), s \in LineSeqs(1)}

DiffInputs == LineSeqs(MaxLines) \cup SplitInputs

ContextSizes == {0, 1, DefaultContext}

FileLabels == {<<<<>>, <<>>>>, <<<<"a", "/", "f">>, <<"b", "/", "f">>>>}

InitDiff ==
    /\ ud_a \in DiffInputs
    /\ ud_b \in DiffInputs
    /\ \E l \in FileLabels : ud_fromfile = l[1] /\ ud_tofile = l[2]
    /\ ud_n \in ContextSizes
    /\ ud_groups = get_grouped_opcodes(ud_a, ud_b, ud_n)
    /\ started = FALSE
    /\ ud_out = <<>>
    /\ ud_pc = "running"
    /\ WodIdle /\ AmIdle

\* patch.py 86-107: one iteration of the loop over the groups
UdGroup ==
    /\ ud_pc = "running"
    /\ ud_groups # <<>>
    /\ ud_out' = ud_out \o GroupOutput(ud_a, ud_b, Head(ud_groups), started,
                                       ud_fromfile, ud_tofile)
    /\ started' = TRUE
    /\ ud_groups' = Tail(ud_groups)
    /\ UNCHANGED <<ud_a, ud_b, ud_fromfile, ud_tofile, ud_n, ud_pc>>
    /\ UNCHANGED <<wodVars, amVars>>

\* patch.py 86: the groups are exhausted and the generator returns
UdReturn ==
    /\ ud_pc = "running"
    /\ ud_groups = <<>>
    /\ ud_pc' = "done"
    /\ UNCHANGED <<ud_a, ud_b, ud_fromfile, ud_tofile, ud_n, ud_groups,
                   started, ud_out>>
    /\ UNCHANGED <<wodVars, amVars>>

NextDiff == UdGroup \/ UdReturn

SpecDiff == InitDiff /\ [][NextDiff]_vars

(***************************************************************************)
(* Properties of unified_diff.                                             *)
(***************************************************************************)
Last(s) == s[Len(s)]

DigitValue(c) == CHOOSE d \in 0 .. 9 : DigitChar[d + 1] = c

IsDigit(c) == \E d \in 0 .. 9 : DigitChar[d + 1] = c

RECURSIVE ParseDec(_, _, _)
\* the number written in decimal at s[i..], after the digits in acc
ParseDec(s, i, acc) ==
    IF i <= Len(s) /\ IsDigit(s[i])
    THEN ParseDec(s, i + 1, 10 * acc + DigitValue(s[i]))
    ELSE acc

RangePrefix == <<"@", "@", " ", "-">>

\* the old-file start line a range header "@@ -<start>,<count> ..." gives
OldStart(line) == ParseDec(line, Len(RangePrefix) + 1, 0)

RECURSIVE ApplyLoop(_, _, _, _, _)
\* Applies the hunks in plines[idx..] to a, of which pos lines are consumed
\* and acc is the result so far: a range header copies the lines of a up to
\* its start, ' ' keeps a line, '-' drops one, '+' adds one, and the marker
\* line takes the terminator off the line before it.
ApplyLoop(a, plines, idx, pos, acc) ==
    IF idx > Len(plines) THEN acc \o Drop(a, pos)
    ELSE LET line == plines[idx]
             marked == idx < Len(plines) /\ plines[idx + 1] = NoNewlineMarker
             text == IF marked THEN SubSeq(line, 2, Len(line) - 1)
                     ELSE Drop(line, 1)
         IN  IF StartsWith(line, RangePrefix)
             THEN ApplyLoop(a, plines, idx + 1, OldStart(line) - 1,
                            acc \o SubSeq(a, pos + 1, OldStart(line) - 1))
             ELSE IF line[1] = " "
             THEN ApplyLoop(a, plines, idx + 1, pos + 1, Append(acc, text))
             ELSE IF line[1] = "-"
             THEN ApplyLoop(a, plines, idx + 1, pos + 1, acc)
             ELSE IF line[1] = "+"
             THEN ApplyLoop(a, plines, idx + 1, pos, Append(acc, text))
             ELSE ApplyLoop(a, plines, idx + 1, pos, acc)

\* a patched by the unified diff whose yielded elements are out; the first
\* two lines of a non-empty diff are the file headers
ApplyPatch(a, out) ==
    LET plines == ReadLines(Concat(out))
    IN  IF plines = <<>> THEN a ELSE ApplyLoop(a, plines, 3, 0, <<>>)

\* C2: once unified_diff has returned, applying the hunks it yielded to a
\* reconstructs b exactly, a final line without a terminator included.
C2_RoundTrip ==
    ud_pc = "done" => ApplyPatch(ud_a, ud_out) = ud_b

\* C2's case: default context, the last line of b has no terminator and is
\* added with the marker, and the diff has two hunks.
C2_Witness ==
    /\ ud_pc = "done"
    /\ ud_n = DefaultContext
    /\ ud_b # <<>> /\ ~EndsWithNewline(Last(ud_b))
    /\ \E k \in 1 .. Len(ud_out) :
          ud_out[k] = <<"+">> \o Last(ud_b) \o <<NL>> \o NoNewlineMarker
    /\ Cardinality({k \in 1 .. Len(ud_out) :
                        StartsWith(ud_out[k], RangePrefix)}) = 2
    /\ ApplyPatch(ud_a, ud_out) = ud_b

\* the source lines of a and b
SourceLines == {ud_a[k] : k \in 1 .. Len(ud_a)} \cup {ud_b[k] : k \in 1 .. Len(ud_b)}

\* the yielded element shows source line l, with any of the three prefixes
Shows(elem, l) ==
    /\ elem # <<>>
    /\ elem[1] \in {" ", "-", "+"}
    /\ StartsWith(Drop(elem, 1), l)
    /\ Drop(elem, 1) \in {l, l \o <<NL>> \o NoNewlineMarker}

\* C3: every yielded element ends with a newline, and an element showing a
\* source line that lacks its newline carries the line, a newline, and the
\* marker line right after it, whatever the opcode (equal included).
C3_EveryLineTerminated ==
    \A k \in 1 .. Len(ud_out) :
        /\ EndsWithNewline(ud_out[k])
        /\ \A l \in SourceLines :
              (Shows(ud_out[k], l) /\ ~EndsWithNewline(l))
                  => Drop(ud_out[k], 1) = l \o <<NL>> \o NoNewlineMarker

\* C4: diffing a against itself yields nothing, for every context size; a
\* diff of different inputs starts with the two file headers, then a range
\* header, and no later element is a file header.
C4_Headers ==
    /\ (ud_a = ud_b) => (ud_out = <<>> /\ ud_groups = <<>>)
    /\ (ud_pc = "done" /\ ud_a # ud_b) =>
          /\ Len(ud_out) >= 3
          /\ ud_out[1] = FromHeader(ud_fromfile)
          /\ ud_out[2] = ToHeader(ud_tofile)
          /\ StartsWith(ud_out[3], RangePrefix)
          /\ \A k \in 3 .. Len(ud_out) :
                ud_out[k] \notin {FromHeader(ud_fromfile), ToHeader(ud_tofile)}

\* C4's case: a diff of two groups has returned, with its headers once.
C4_Witness ==
    /\ ud_pc = "done"
    /\ ud_a # ud_b
    /\ ud_n = DefaultContext
    /\ Cardinality({k \in 1 .. Len(ud_out) :
                        StartsWith(ud_out[k], RangePrefix)}) = 2
    /\ Cardinality({k \in 1 .. Len(ud_out) :
                        ud_out[k] = FromHeader(ud_fromfile)}) = 1

(***************************************************************************)
(* write_object_diff (patch.py 118-178) and write_tree_diff (229-242).     *)
(* A file is <<path, mode, hexsha>>, each None for a nonexistent file.     *)
(***************************************************************************)
\* patch.py 35
FIRST_FEW_BYTES == 8000

\* the byte b'\0'
NUL == "NUL"

\* dulwich.objects: the file-type bits of a mode, and the gitlink type
S_IFGITLINK == 57344

S_IFMT(mode) == ((mode \div 4096) % 16) * 4096

S_ISGITLINK(mode) == S_IFMT(mode) = S_IFGITLINK

\* is_binary looking at the whole content
is_binary_anywhere(content) == \E i \in 1 .. Len(content) : content[i] = NUL

\* patch.py 110-115
is_binary(content) ==
    \E i \in 1 .. Len(Take(content, FIRST_FEW_BYTES)) : content[i] = NUL

\* patch.py 132-136
shortid(hexsha) ==
    IF hexsha = None THEN [i \in 1 .. 7 |-> "0"] ELSE Take(hexsha, 7)

\* patch.py 146-150
lines(content) == IF content = <<>> THEN <<>> ELSE splitlines(content)

\* patch.py 152-155
OldDisplay(old_path) ==
    IF old_path = None THEN <<"/", "d", "e", "v", "/", "n", "u", "l", "l">> ELSE <<"a", "/">> \o old_path

\* patch.py 156-159
NewDisplay(new_path) ==
    IF new_path = None THEN <<"/", "d", "e", "v", "/", "n", "u", "l", "l">> ELSE <<"b", "/">> \o new_path

\* patch.py 160
DiffGitLine(old_file, new_file) ==
    <<"d", "i", "f", "f", " ", "-", "-", "g", "i", "t", " ">> \o OldDisplay(old_file[1]) \o <<" ">>
    \o NewDisplay(new_file[1]) \o <<NL>>

\* ModeLines without the 'old mode' line
ModeLinesNewOnly(old_mode, new_mode) ==
    IF old_mode # new_mode
    THEN IF new_mode # NoMode
         THEN <<"n", "e", "w", " ", "m", "o", "d", "e", " ">> \o Oct(new_mode) \o <<NL>>
         ELSE <<"d", "e", "l", "e", "t", "e", "d", " ", "m", "o", "d", "e", " ">> \o Oct(old_mode) \o <<NL>>
    ELSE <<>>

\* patch.py 161-167
ModeLines(old_mode, new_mode) ==
    IF old_mode # new_mode
    THEN IF new_mode # NoMode
         THEN (IF old_mode # NoMode
               THEN <<"o", "l", "d", " ", "m", "o", "d", "e", " ">> \o Oct(old_mode) \o <<NL>> ELSE <<>>)
              \o <<"n", "e", "w", " ", "m", "o", "d", "e", " ">> \o Oct(new_mode) \o <<NL>>
         ELSE <<"d", "e", "l", "e", "t", "e", "d", " ", "m", "o", "d", "e", " ">> \o Oct(old_mode) \o <<NL>>
    ELSE <<>>

\* patch.py 168-171
IndexLine(old_file, new_file) ==
    <<"i", "n", "d", "e", "x", " ">> \o shortid(old_file[3]) \o <<".", ".">> \o shortid(new_file[3])
    \o (IF new_file[2] # NoMode THEN <<" ">> \o Oct(new_file[2]) ELSE <<>>)
    \o <<NL>>

\* patch.py 160-171: what write_object_diff writes before it resolves the
\* contents
SectionHead(old_file, new_file) ==
    DiffGitLine(old_file, new_file)
    \o ModeLines(old_file[2], new_file[2])
    \o IndexLine(old_file, new_file)

\* patch.py 174: the branch that writes the binary notice
TreatAsBinary(binary, oc, nc) == ~binary /\ (is_binary(oc) \/ is_binary(nc))

\* patch.py 175
BinaryNotice(old_file, new_file) ==
    <<"B", "i", "n", "a", "r", "y", " ", "f", "i", "l", "e", "s", " ">> \o OldDisplay(old_file[1]) \o <<" ", "a", "n", "d", " ">>
    \o NewDisplay(new_file[1]) \o <<" ", "d", "i", "f", "f", "e", "r", NL>>

\* patch.py 174-178
SectionBody(old_file, new_file, oc, nc, binary) ==
    IF TreatAsBinary(binary, oc, nc)
    THEN BinaryNotice(old_file, new_file)
    ELSE Concat(unified_diff(lines(oc), lines(nc),
                             OldDisplay(old_file[1]), NewDisplay(new_file[1]),
                             DefaultContext))

\* patch.py 139-144: whether content(mode, hexsha) reads the store
NeedsStore(file) == file[3] # None /\ ~S_ISGITLINK(file[2])

(***************************************************************************)
(* The object store: blobs by hexsha.  A hexsha is 40 hex digits.          *)
(***************************************************************************)
Sha(c) == [i \in 1 .. 40 |-> c]

Pad(k) == [i \in 1 .. k |-> "p"]

\* store[hexsha].data for the blobs of the store
BlobData(hexsha) ==
    CASE hexsha = Sha("a") -> <<"x", NL, "y", NL>>
      [] hexsha = Sha("b") -> <<"x", NL, "z">>
      [] hexsha = Sha("c") -> <<"x", NUL, NL>>
      [] hexsha = Sha("d") -> Pad(FIRST_FEW_BYTES - 1) \o <<NUL>>
      [] hexsha = Sha("e") -> Pad(FIRST_FEW_BYTES) \o <<NUL>>
      [] OTHER -> <<>>

StoredIds == {Sha("a"), Sha("b"), Sha("c"), Sha("d"), Sha("e"), Sha("0")}

\* an id that no blob of the store has
MissingId == Sha("f")

\* patch.py 138-144: content(mode, hexsha) when the store has what it needs
content(file) ==
    IF file[3] = None THEN <<>>
    ELSE IF S_ISGITLINK(file[2])
    THEN <<"S", "u", "b", "m", "o", "d", "u", "l", "e", " ", "c", "o", "m", "m", "i", "t", " ">> \o file[3] \o <<NL>>
    ELSE BlobData(file[3])

\* patch.py 172-173: the store lookups write_object_diff makes, in order,
\* up to and including the first that fails
Lookups(old_file, new_file, have) ==
    IF NeedsStore(old_file) /\ old_file[3] \notin have THEN <<old_file[3]>>
    ELSE (IF NeedsStore(old_file) THEN <<old_file[3]>> ELSE <<>>)
         \o (IF NeedsStore(new_file) THEN <<new_file[3]>> ELSE <<>>)

\* patch.py 172-173: a lookup raises KeyError
LookupFails(old_file, new_file, have) ==
    \/ NeedsStore(old_file) /\ old_file[3] \notin have
    \/ NeedsStore(new_file) /\ new_file[3] \notin have

Absent == <<None, NoMode, None>>

\* patch.py 239-242: the tuple the loop is at, as write_object_diff gets it
OldFile == <<changes[ck][1][1], changes[ck][2][1], changes[ck][3][1]>>

NewFile == <<changes[ck][1][2], changes[ck][2][2], changes[ck][3][2]>>

\* a change tuple as store.tree_changes yields it
Change(old_file, new_file) ==
    <<<<old_file[1], new_file[1]>>, <<old_file[2], new_file[2]>>,
      <<old_file[3], new_file[3]>>>>

\* NextChange starting at the second change
NextChangeSkipFirst(k, n) ==
    IF k = 0 /\ n >= 2 THEN 2 ELSE IF k < n THEN k + 1 ELSE k

\* patch.py 238-239: the loop takes the next change, or the changes are
\* exhausted and write_tree_diff returns
NextChange(k, n) == IF k < n THEN k + 1 ELSE k

WtdLoop ==
    /\ wod_pc = "loop"
    /\ ck' = NextChange(ck, Len(changes))
    /\ wod_pc' = IF ck < Len(changes) THEN "head" ELSE "done"
    /\ UNCHANGED <<present, diff_binary, changes, f, old_content,
                   new_content, fetched>>
    /\ UNCHANGED <<udVars, amVars>>

\* patch.py 130-171
WodHead ==
    /\ wod_pc = "head"
    /\ f' = f \o SectionHead(OldFile, NewFile)
    /\ wod_pc' = "content"
    /\ UNCHANGED <<present, diff_binary, changes, ck, old_content,
                   new_content, fetched>>
    /\ UNCHANGED <<udVars, amVars>>

\* patch.py 172-173, both lookups succeeding
WodContent ==
    /\ wod_pc = "content"
    /\ ~LookupFails(OldFile, NewFile, present)
    /\ fetched' = fetched \o Lookups(OldFile, NewFile, present)
    /\ old_content' = content(OldFile)
    /\ new_content' = content(NewFile)
    /\ wod_pc' = "body"
    /\ UNCHANGED <<present, diff_binary, changes, ck, f>>
    /\ UNCHANGED <<udVars, amVars>>

\* patch.py 172-173, a lookup raising: the error leaves write_object_diff
\* and write_tree_diff, which have no handler
WodRaise ==
    /\ wod_pc = "content"
    /\ LookupFails(OldFile, NewFile, present)
    /\ fetched' = fetched \o Lookups(OldFile, NewFile, present)
    /\ wod_pc' = "raised"
    /\ UNCHANGED <<present, diff_binary, changes, ck, f, old_content,
                   new_content>>
    /\ UNCHANGED <<udVars, amVars>>

\* patch.py 174-178
WodBody ==
    /\ wod_pc = "body"
    /\ f' = f \o SectionBody(OldFile, NewFile, old_content, new_content,
                             diff_binary)
    /\ wod_pc' = "loop"
    /\ UNCHANGED <<present, diff_binary, changes, ck, old_content,
                   new_content, fetched>>
    /\ UNCHANGED <<udVars, amVars>>

NextWrite == WtdLoop \/ WodHead \/ WodContent \/ WodRaise \/ WodBody

\* inputs of one write_object_diff call
Paths == {<<"f">>}

Modes == {33188, 33261, S_IFGITLINK}

ObjectFiles ==
    {Absent} \cup (Paths \X Modes \X (StoredIds \cup {MissingId}))

\* write_object_diff(f, store, old_file, new_file, diff_binary): the run
\* over the one pair
InitObject ==
    /\ present = StoredIds
    /\ diff_binary \in BOOLEAN
    /\ \E o \in ObjectFiles, w \in ObjectFiles : changes = <<Change(o, w)>>
    /\ ck = 0
    /\ f = <<>>
    /\ old_content = <<>> /\ new_content = <<>>
    /\ fetched = <<>>
    /\ wod_pc = "loop"
    /\ UdIdle /\ AmIdle

SpecObject == InitObject /\ [][NextWrite]_vars

\* the most change tuples of a tree diff
MaxChanges == 3

FileA == <<<<"f">>, 33188, Sha("a")>>

FileB == <<<<"f">>, 33261, Sha("b")>>

FileC == <<<<"g">>, 33188, Sha("c")>>

FileLost == <<<<"g">>, 33188, MissingId>>

\* an addition, a deletion, a change of content and mode, a change to
\* binary content, and changes one of whose blobs the store lacks
TreeChanges ==
    {Change(Absent, FileA), Change(FileB, Absent), Change(FileA, FileB),
     Change(FileA, FileC), Change(FileLost, FileA), Change(FileB, FileLost)}

\* write_tree_diff(f, store, old_tree, new_tree, diff_binary) with the
\* changes store.tree_changes yields
InitTree ==
    /\ present = StoredIds
    /\ diff_binary \in BOOLEAN
    /\ changes \in UNION {[1 .. m -> TreeChanges] : m \in 0 .. MaxChanges}
    /\ ck = 0
    /\ f = <<>>
    /\ old_content = <<>> /\ new_content = <<>>
    /\ fetched = <<>>
    /\ wod_pc = "loop"
    /\ UdIdle /\ AmIdle

SpecTree == InitTree /\ [][NextWrite]_vars

(***************************************************************************)
(* Properties of write_object_diff and write_tree_diff.                    *)
(***************************************************************************)
\* the modes of the inputs as "%o" must print them
ModeText(mode) ==
    CASE mode = 33188 -> <<"1", "0", "0", "6", "4", "4">>
      [] mode = 33261 -> <<"1", "0", "0", "7", "5", "5">>
      [] mode = 57344 -> <<"1", "6", "0", "0", "0", "0">>

\* the mode lines the four cases of C5 call for
ExpectedModeLines(old_mode, new_mode) ==
    IF old_mode = new_mode THEN <<>>
    ELSE IF old_mode # NoMode /\ new_mode # NoMode
    THEN <<<<"o", "l", "d", " ", "m", "o", "d", "e", " ">> \o ModeText(old_mode) \o <<NL>>,
           <<"n", "e", "w", " ", "m", "o", "d", "e", " ">> \o ModeText(new_mode) \o <<NL>>>>
    ELSE IF old_mode = NoMode
    THEN <<<<"n", "e", "w", " ", "m", "o", "d", "e", " ">> \o ModeText(new_mode) \o <<NL>>>>
    ELSE <<<<"d", "e", "l", "e", "t", "e", "d", " ", "m", "o", "d", "e", " ">> \o ModeText(old_mode) \o <<NL>>>>

\* C5: when write_object_diff has written its header lines, the first is
\* the 'diff --git' line, the last the 'index' line, and between them stand
\* exactly the mode lines of the case: none for equal modes, old and new
\* for two different modes, new alone for an added file, deleted for a
\* removed one; the index line ends with the new mode exactly when there
\* is one.
C5_ModeLines ==
    (wod_pc = "content" /\ ck = 1) =>
        LET ls == ReadLines(f)
            idx == ls[Len(ls)]
            old_mode == OldFile[2]
            new_mode == NewFile[2]
        IN  /\ Len(ls) >= 2
            /\ StartsWith(ls[1], <<"d", "i", "f", "f", " ", "-", "-", "g", "i", "t", " ">>)
            /\ StartsWith(idx, <<"i", "n", "d", "e", "x", " ">>)
            /\ SubSeq(ls, 2, Len(ls) - 1)
                   = ExpectedModeLines(old_mode, new_mode)
            /\ new_mode # NoMode =>
                   EndsWith(idx, <<" ">> \o ModeText(new_mode) \o <<NL>>)
            /\ new_mode = NoMode =>
                   /\ EndsWith(idx, <<".", ".", "0", "0", "0", "0", "0", "0", "0", NL>>)
                   /\ Cardinality({i \in 1 .. Len(idx) : idx[i] = " "}) = 1

\* C5's case: a file whose mode changes from 100644 to 100755.
C5_Witness ==
    /\ wod_pc = "content" /\ ck = 1
    /\ OldFile[2] = 33188 /\ NewFile[2] = 33261
    /\ SubSeq(ReadLines(f), 2, 3) = <<<<"o", "l", "d", " ", "m", "o", "d", "e", " ", "1", "0", "0", "6", "4", "4", NL>>, <<"n", "e", "w", " ", "m", "o", "d", "e", " ", "1", "0", "0", "7", "5", "5", NL>>>>

\* a null byte within the first 8000 bytes
NulEarly(bytes) == \E i \in 1 .. Len(bytes) : i <= 8000 /\ bytes[i] = NUL

\* the body of the section write_object_diff has just written
WrittenBody == Drop(f, Len(SectionHead(OldFile, NewFile)))

\* C6: the body of the section is the binary notice, and nothing else,
\* exactly when diff_binary is false and one of the resolved contents has a
\* null byte in its first 8000 bytes; otherwise it is the unified diff of
\* the two contents' lines with context 3, and no binary notice.
C6_BinaryOrText ==
    (wod_pc = "loop" /\ ck = 1) =>
        LET old_display == IF OldFile[1] = None THEN <<"/", "d", "e", "v", "/", "n", "u", "l", "l">>
                           ELSE <<"a", "/">> \o OldFile[1]
            new_display == IF NewFile[1] = None THEN <<"/", "d", "e", "v", "/", "n", "u", "l", "l">>
                           ELSE <<"b", "/">> \o NewFile[1]
            notice == <<"B", "i", "n", "a", "r", "y", " ", "f", "i", "l", "e", "s", " ">> \o old_display \o <<" ", "a", "n", "d", " ">>
                      \o new_display \o <<" ", "d", "i", "f", "f", "e", "r", NL>>
            binary == ~diff_binary
                      /\ (NulEarly(old_content) \/ NulEarly(new_content))
        IN  /\ binary => WrittenBody = notice
            /\ ~binary =>
                  /\ WrittenBody =
                        Concat(unified_diff(lines(old_content),
                                            lines(new_content),
                                            old_display, new_display, 3))
                  /\ ~StartsWith(WrittenBody, <<"B", "i", "n", "a", "r", "y", " ", "f", "i", "l", "e", "s", " ">>)

\* C6's case: the new content's only null byte is at offset 8000, so the
\* section gets a diff body although diff_binary is false.
C6_Witness ==
    /\ wod_pc = "loop" /\ ck = 1
    /\ ~diff_binary
    /\ old_content = <<"x", NL, "y", NL>>
    /\ Len(new_content) = 8001 /\ new_content[8001] = NUL
    /\ StartsWith(WrittenBody, <<"-", "-", "-", " ", "a", "/", "f", NL, "+", "+", "+", " ", "b", "/", "f", NL, "@", "@", " ", "-", "1", ",", "2", " ", "+", "1", ",", "1", " ", "@", "@", NL>>)

\* the store lookup of the change fails
ChangeFails(c) ==
    LookupFails(<<c[1][1], c[2][1], c[3][1]>>, <<c[1][2], c[2][2], c[3][2]>>,
                present)

\* everything one write_object_diff call writes for a change tuple: the
\* whole section, or the header lines alone when a lookup fails
Section(c) ==
    LET old_file == <<c[1][1], c[2][1], c[3][1]>>
        new_file == <<c[1][2], c[2][2], c[3][2]>>
    IN  SectionHead(old_file, new_file)
        \o (IF ChangeFails(c) THEN <<>>
            ELSE SectionBody(old_file, new_file, content(old_file),
                             content(new_file), diff_binary))

\* the sections of the first k change tuples, in enumeration order
Sections(k) == Concat([i \in 1 .. k |-> Section(changes[i])])

\* the lookups of the first k change tuples, each made once
LookupsOf(k) ==
    Concat([i \in 1 .. k |->
              Lookups(<<changes[i][1][1], changes[i][2][1], changes[i][3][1]>>,
                      <<changes[i][1][2], changes[i][2][2], changes[i][3][2]>>,
                      present)])

\* C8: what is written is always a prefix of the sections in enumeration
\* order; a run that returns has written them all and no lookup failed; a
\* run in which the lookup for tuple k failed has written the sections
\* before k and k's header lines, ends there, and has made every lookup
\* once, the failed one last.
C8_TreeOrder ==
    /\ IsPrefix(f, Sections(Len(changes)))
    /\ fetched = LookupsOf(IF wod_pc \in {"head", "content"} THEN ck - 1
                           ELSE ck)
    /\ wod_pc = "done" =>
          /\ f = Sections(Len(changes))
          /\ \A i \in 1 .. Len(changes) : ~ChangeFails(changes[i])
    /\ wod_pc = "raised" =>
          /\ ChangeFails(changes[ck])
          /\ \A i \in 1 .. ck - 1 : ~ChangeFails(changes[i])
          /\ f = Sections(ck)
          /\ Last(fetched) \notin present
          /\ ~ENABLED NextWrite

\* C8's case: the second of three tuples fails after the first was written
\* whole, and the third, which would write a section, is never started.
C8_Witness ==
    /\ wod_pc = "raised"
    /\ Len(changes) = 3 /\ ck = 2
    /\ Len(Section(changes[1])) > Len(SectionHead(<<changes[1][1][1], changes[1][2][1], changes[1][3][1]>>, <<changes[1][1][2], changes[1][2][2], changes[1][3][2]>>))
    /\ ~ChangeFails(changes[3])
    /\ f = Section(changes[1]) \o Section(changes[2])
    /\ f # Sections(3)

(***************************************************************************)
(* write_commit_patch (patch.py 38-68).                                    *)
(***************************************************************************)
\* time.ctime(commit.commit_time) and time.strftime(...), whatever the
\* clock gives
CTime == <<"T", "h", "u", " ", "J", "a", "n", " ", " ", "1", " ", "0", "0", ":", "0", "0", ":", "0", "0", " ", "1", "9", "7", "0">>

DateNow == <<"T", "h", "u", ",", " ", "0", "1", " ", "J", "a", "n", " ", "1", "9", "7", "0", " ", "0", "0", ":", "0", "0", ":", "0", "0", " ", "U", "T", "C">>

\* the summary the diffstat program prints for the contents
DiffstatOutput == <<" ", "0", " ", "f", "i", "l", "e", "s", " ", "c", "h", "a", "n", "g", "e", "d", NL>>

\* dulwich.__version__, printed by "Dulwich %d.%d.%d\n"
DulwichVersionLine == <<"D", "u", "l", "w", "i", "c", "h", " ">> \o Dec(0) \o <<".">> \o Dec(9) \o <<".">> \o Dec(1) \o <<NL>>

\* patch.py 46-51
EnvelopeHead(c, prog) ==
    <<"F", "r", "o", "m", " ">> \o c.id \o <<" ">> \o CTime \o <<NL>>
    \o <<"F", "r", "o", "m", ":", " ">> \o c.author \o <<NL>>
    \o <<"D", "a", "t", "e", ":", " ">> \o DateNow \o <<NL>>
    \o <<"S", "u", "b", "j", "e", "c", "t", ":", " ", "[", "P", "A", "T", "C", "H", " ">> \o Dec(prog[1]) \o <<"/">> \o Dec(prog[2]) \o <<"]", " ">>
    \o c.message \o <<NL>>
    \o <<NL>>
    \o <<"-", "-", "-", NL>>

\* patch.py 52-61: the diffstat program cannot be started ("unavailable");
\* or it runs and the file takes the str "\n" ("accepted", Python 2); or it
\* runs and the bytes file refuses the str "\n" ("refused", Python 3)
DiffstatPart(env) ==
    IF env = "unavailable" THEN <<>>
    ELSE IF env = "accepted" THEN DiffstatOutput \o <<NL>>
    ELSE DiffstatOutput

\* patch.py 62-68
EnvelopeTail(diff, ver) ==
    diff \o <<"-", "-", " ", NL>>
    \o (IF ver = None THEN DulwichVersionLine ELSE ver \o <<NL>>)

\* the bytes write_commit_patch leaves in f
WrittenPatch(c, diff, prog, ver, env) ==
    EnvelopeHead(c, prog) \o DiffstatPart(env)
    \o (IF env = "refused" THEN <<>> ELSE EnvelopeTail(diff, ver))

(***************************************************************************)
(* git_am_patch_split (patch.py 245-292).                                  *)
(***************************************************************************)
RECURSIVE Find(_, _, _)
\* s.find(pat, k): the first 0-based index >= k where pat occurs, or -1
Find(s, pat, k) ==
    IF k + Len(pat) > Len(s) THEN -1
    ELSE IF SubSeq(s, k + 1, k + Len(pat)) = pat THEN k
    ELSE Find(s, pat, k + 1)

RECURSIVE Remove(_, _)
\* s.replace(c, b'') for a single byte c
Remove(s, c) ==
    IF s = <<>> THEN <<>>
    ELSE (IF Head(s) = c THEN <<>> ELSE <<Head(s)>>) \o Remove(Tail(s), c)

RECURSIVE RStrip(_, _)
\* s.rstrip(chars)
RStrip(s, chars) ==
    IF s # <<>> /\ s[Len(s)] \in chars
    THEN RStrip(SubSeq(s, 1, Len(s) - 1), chars) ELSE s

RECURSIVE LStrip(_, _)
LStrip(s, chars) ==
    IF s # <<>> /\ Head(s) \in chars THEN LStrip(Tail(s), chars) ELSE s

Whitespace == {" ", "\t", NL, CR}

\* email.parser: a header line is a field name without blanks, then ':'
IsHeaderLine(line) ==
    LET colon == Find(line, <<":">>, 0)
    IN  colon >= 0 /\ \A i \in 1 .. colon : line[i] \notin Whitespace

\* email.parser: a line that continues the header before it
IsContinuation(line) == line # <<>> /\ line[1] \in {" ", "\t"}

RECURSIVE HeaderEnd(_, _)
\* the index of the first line at or after k that is not a header line
HeaderEnd(ls, k) ==
    IF k <= Len(ls) /\ (IsHeaderLine(ls[k]) \/ IsContinuation(ls[k]))
    THEN HeaderEnd(ls, k + 1) ELSE k

UpperCase ==
    <<"A", "B", "C", "D", "E", "F", "G", "H", "I", "J", "K", "L", "M",
      "N", "O", "P", "Q", "R", "S", "T", "U", "V", "W", "X", "Y", "Z">>

LowerCase ==
    <<"a", "b", "c", "d", "e", "f", "g", "h", "i", "j", "k", "l", "m",
      "n", "o", "p", "q", "r", "s", "t", "u", "v", "w", "x", "y", "z">>

\* field names match whatever their case
LowerChar(c) ==
    IF \E i \in 1 .. Len(UpperCase) : UpperCase[i] = c
    THEN LowerCase[CHOOSE i \in 1 .. Len(UpperCase) : UpperCase[i] = c]
    ELSE c

Lower(s) == [i \in 1 .. Len(s) |-> LowerChar(s[i])]

RECURSIVE Continued(_, _, _)
\* the continuation lines after header line k
Continued(ls, k, last) ==
    IF k + 1 < last /\ IsContinuation(ls[k + 1])
    THEN ls[k + 1] \o Continued(ls, k + 1, last) ELSE <<>>

\* msg[name]: the value of the first header of that name, without the blanks
\* after the colon and without the line end, or None
HeaderValue(ls, first, last, name) ==
    LET hits == {k \in first .. last - 1 :
                    /\ IsHeaderLine(ls[k])
                    /\ Lower(Take(ls[k], Find(ls[k], <<":">>, 0))) = name}
    IN  IF hits = {} THEN None
        ELSE LET k == CHOOSE x \in hits : \A y \in hits : x <= y
                 colon == Find(ls[k], <<":">>, 0)
             IN  RStrip(LStrip(Drop(ls[k], colon + 1), {" ", "\t"})
                        \o Continued(ls, k, last), {NL, CR})

\* patch.py 251-256: parser.parse(f).  A first line 'From ...' is the
\* envelope; the headers end at the first line that is no header; a blank
\* line there is dropped, and the payload is what follows.
ParseMessage(bytes) ==
    LET ls == ReadLines(bytes)
        first == IF ls # <<>> /\ StartsWith(ls[1], <<"F", "r", "o", "m", " ">>) THEN 2 ELSE 1
        last == HeaderEnd(ls, first)
        body == IF last <= Len(ls) /\ ls[last] \in {<<NL>>, <<CR, NL>>}
                THEN last + 1 ELSE last
    IN  [from |-> HeaderValue(ls, first, last, <<"f", "r", "o", "m">>),
         subject |-> HeaderValue(ls, first, last, <<"s", "u", "b", "j", "e", "c", "t">>),
         payload |-> Concat(SubSeq(ls, body, Len(ls)))]

\* SubjectUnclosed when the ValueError of the second index is caught too
SubjectNeverUnclosed(subject) == FALSE

\* patch.py 260-266: whether the subject has a '[PATCH' with no '] ' after
SubjectUnclosed(subject) ==
    LET patch_tag_start == Find(subject, <<"[", "P", "A", "T", "C", "H">>, 0)
    IN  patch_tag_start >= 0 /\ Find(subject, <<"]", " ">>, patch_tag_start) < 0

\* patch.py 260-266
EffectiveSubject(subject) ==
    LET patch_tag_start == Find(subject, <<"[", "P", "A", "T", "C", "H">>, 0)
        close == Find(subject, <<"]", " ">>, patch_tag_start)
    IN  IF patch_tag_start < 0 THEN subject ELSE Drop(subject, close + 2)

\* patch.py 267
InitialMessage(subject) == Remove(EffectiveSubject(subject), NL) \o <<NL>>

\* patch.py 272-274: how many body lines the first loop reads, the '---'
\* line that ends it included
MessageEnd(body) ==
    LET marks == {k \in 1 .. Len(body) : body[k] = <<"-", "-", "-", NL>>}
    IN  IF marks = {} THEN Len(body)
        ELSE CHOOSE k \in marks : \A m \in marks : k <= m

\* MessagePart with first cleared only by a line that is added: the
\* separator goes before the first added line, after a 'From: ' line too
MessagePartSeparatorAfterFrom(body, k) ==
    IF k = 1
    THEN (IF StartsWith(body[1], <<"F", "r", "o", "m", ":", " ">>) THEN <<>>
          ELSE <<NL>> \o body[1])
    ELSE IF k = 2 /\ StartsWith(body[1], <<"F", "r", "o", "m", ":", " ">>)
    THEN <<NL>> \o body[2]
    ELSE body[k]

\* patch.py 275-282: what the first loop adds to the message for body line
\* k of the lines before the '---' line
MessagePart(body, k) ==
    IF k = 1
    THEN (IF StartsWith(body[1], <<"F", "r", "o", "m", ":", " ">>) THEN <<>>
          ELSE <<NL>> \o body[1])
    ELSE body[k]

\* patch.py 272-282: the lines of the first loop that are not the marker
MessageLines(body) ==
    LET stop == MessageEnd(body)
    IN  IF stop >= 1 /\ body[stop] = <<"-", "-", "-", NL>> THEN stop - 1 ELSE stop

\* patch.py 267-282
ParsedMessage(subject, body) ==
    InitialMessage(subject)
    \o Concat([k \in 1 .. MessageLines(body) |-> MessagePart(body, k)])

\* patch.py 258, 276-277
ParsedAuthor(from, body) ==
    IF MessageLines(body) >= 1 /\ StartsWith(body[1], <<"F", "r", "o", "m", ":", " ">>)
    THEN RStrip(Drop(body[1], Len(<<"F", "r", "o", "m", ":", " ">>)), Whitespace)
    ELSE from

\* patch.py 284-287: how many of the lines after the first loop the second
\* loop reads, the '-- ' line that ends it included
DiffEnd(rest) ==
    LET marks == {k \in 1 .. Len(rest) : rest[k] = <<"-", "-", " ", NL>>}
    IN  IF marks = {} THEN Len(rest)
        ELSE CHOOSE k \in marks : \A m \in marks : k <= m

\* patch.py 283-287
ParsedDiff(rest) ==
    LET stop == DiffEnd(rest)
    IN  Concat(SubSeq(rest, 1,
                      IF stop >= 1 /\ rest[stop] = <<"-", "-", " ", NL>> THEN stop - 1
                      ELSE stop))

\* ParsedVersion without the rstrip
ParsedVersionKeepsNewline(rest) ==
    IF DiffEnd(rest) < Len(rest) THEN rest[DiffEnd(rest) + 1] ELSE None

\* patch.py 288-291
ParsedVersion(rest) ==
    IF DiffEnd(rest) < Len(rest)
    THEN RStrip(rest[DiffEnd(rest) + 1], {NL}) ELSE None

\* patch.py 245-292: what a call of git_am_patch_split(f) comes to
git_am_patch_split(bytes) ==
    LET msg == ParseMessage(bytes)
        body == ReadLines(msg.payload)
        rest == SubSeq(body, MessageEnd(body) + 1, Len(body))
    IN  IF msg.from = None THEN Raised("AttributeError")
        ELSE IF msg.subject = None THEN Raised("AttributeError")
        ELSE IF SubjectUnclosed(msg.subject) THEN Raised("ValueError")
        ELSE [status |-> "returned", exc |-> "",
              author |-> ParsedAuthor(msg.from, body),
              committer |-> msg.from,
              message |-> ParsedMessage(msg.subject, body),
              diff |-> ParsedDiff(rest),
              version |-> ParsedVersion(rest)]

(***************************************************************************)
(* The patch mail state machine: write_commit_patch into f, then           *)
(* f.seek(0) and git_am_patch_split(f); or git_am_patch_split on bytes     *)
(* that come from elsewhere.                                               *)
(***************************************************************************)
\* patch.py 38-68
WriteCommitPatch ==
    /\ am_pc = "write"
    /\ mbox' = WrittenPatch(commit, contents, progress, version, diffstat)
    /\ result' = IF diffstat = "refused" THEN Raised("TypeError") ELSE result
    /\ am_pc' = IF diffstat = "refused" THEN "write_raised" ELSE "parse"
    /\ UNCHANGED <<commit, contents, progress, version, diffstat>>
    /\ UNCHANGED <<udVars, wodVars>>

\* patch.py 245-292
GitAmPatchSplit ==
    /\ am_pc = "parse"
    /\ result' = git_am_patch_split(mbox)
    /\ am_pc' = IF git_am_patch_split(mbox).status = "raised"
                THEN "raised" ELSE "done"
    /\ UNCHANGED <<commit, contents, progress, version, diffstat, mbox>>
    /\ UNCHANGED <<udVars, wodVars>>

NextMail == WriteCommitPatch \/ GitAmPatchSplit

\* commits to write: a subject alone, and a subject, a blank line and body
\* lines
Messages ==
    {<<"S", "u", "b", "j", "e", "c", "t", " ", "l", "i", "n", "e", NL, NL, "B", "o", "d", "y", " ", "l", "i", "n", "e", NL>>, <<"F", "i", "x", NL>>, <<"F", "i", "x", NL, NL, "F", "r", "o", "m", ":", " ", "B", " ", "<", "b", "@", "e", ">", NL, "m", "o", "r", "e", NL>>,
     <<"F", "i", "x", NL, NL, "s", "e", "e", NL, "-", "-", "-", NL, "b", "e", "l", "o", "w", NL>>}

Commits ==
    {[id |-> <<"0", "b", "0", "d", "3", "4", "d", "1">>, author |-> <<"A", " ", "<", "a", "@", "e", "x", "a", "m", "p", "l", "e", ".", "c", "o", "m", ">">>, message |-> m] :
        m \in Messages}

\* diff bytes: none, a diff, bytes without a final newline, and diffs that
\* remove the line '- '
DiffBytes ==
    {<<>>, <<"@", "@", " ", "-", "1", ",", "1", " ", "+", "1", ",", "1", " ", "@", "@", NL, "-", "x", NL, "+", "y", NL>>, <<"C", "O", "N", "T", "E", "N", "T", "S">>, <<"-", "-", " ", NL>>,
     <<"@", "@", " ", "-", "1", ",", "2", " ", "+", "1", ",", "1", " ", "@", "@", NL, " ", "x", NL, "-", "-", " ", NL>>}

InitWrite ==
    /\ commit \in Commits
    /\ contents \in DiffBytes
    /\ progress \in {<<1, 1>>, <<3, 5>>}
    /\ version \in {None, <<"c", "u", "s", "t", "o", "m">>}
    /\ diffstat \in {"unavailable", "accepted", "refused"}
    /\ mbox = <<>>
    /\ result = NoResult
    /\ am_pc = "write"

\* the most body lines of a message parsed as it comes
MaxBodyLines == 4

\* header blocks: complete, complete with envelope line and patch tag,
\* without From, without Subject, with a patch tag never closed, and with
\* a folded subject
HeaderBlocks ==
    {<<"F", "r", "o", "m", ":", " ", "A", " ", "<", "a", "@", "e", ">", NL, "S", "u", "b", "j", "e", "c", "t", ":", " ", "F", "i", "x", NL>>,
     <<"F", "r", "o", "m", " ", "0", "b", "0", "d", "3", "4", "d", "1", " ", "T", "h", "u", " ", "J", "a", "n", " ", " ", "1", " ", "0", "0", ":", "0", "0", ":", "0", "0", " ", "1", "9", "7", "0", NL, "F", "r", "o", "m", ":", " ", "A", " ", "<", "a", "@", "e", ">", NL, "D", "a", "t", "e", ":", " ", "n", "o", "w", NL, "S", "u", "b", "j", "e", "c", "t", ":", " ", "[", "P", "A", "T", "C", "H", " ", "3", "/", "5", "]", " ", "F", "i", "x", " ", "b", "u", "g", NL>>,
     <<"S", "u", "b", "j", "e", "c", "t", ":", " ", "F", "i", "x", NL>>,
     <<"F", "r", "o", "m", ":", " ", "A", " ", "<", "a", "@", "e", ">", NL>>,
     <<"F", "r", "o", "m", ":", " ", "A", " ", "<", "a", "@", "e", ">", NL, "S", "u", "b", "j", "e", "c", "t", ":", " ", "[", "P", "A", "T", "C", "H", " ", "F", "i", "x", NL>>,
     <<"F", "r", "o", "m", ":", " ", "A", " ", "<", "a", "@", "e", ">", NL, "S", "u", "b", "j", "e", "c", "t", ":", " ", "[", "P", "A", "T", "C", "H", "]", " ", "F", "i", "x", NL, " ", "b", "u", "g", NL>>}

BodyLines == {<<"F", "r", "o", "m", ":", " ", "B", " ", "<", "b", "@", "e", ">", NL>>, <<"x", NL>>, <<NL>>, <<"-", "-", "-", NL>>, <<"-", "-", " ", NL>>}

\* last lines that lack their newline
BodyTails == {<<"x">>, <<"-", "-", "-">>, <<"-", "-", " ">>}

WholeBodies(k) == UNION {[1 .. m -> BodyLines] : m \in 0 .. k}

Bodies ==
    WholeBodies(MaxBodyLines)
    \cup {Append(b, t) : b \in WholeBodies(MaxBodyLines - 1), t \in BodyTails}

InitParse ==
    /\ commit = NoCommit /\ contents = None /\ progress = <<0, 0>>
    /\ version = None /\ diffstat = "unavailable"
    /\ \E h \in HeaderBlocks, b \in Bodies : mbox = h \o <<NL>> \o Concat(b)
    /\ result = NoResult
    /\ am_pc = "parse"

InitMail == (InitWrite \/ InitParse) /\ UdIdle /\ WodIdle

SpecMail == InitMail /\ [][NextMail]_vars

(***************************************************************************)
(* Properties of write_commit_patch and git_am_patch_split.                *)
(***************************************************************************)
\* C1: what git_am_patch_split returns for the bytes write_commit_patch
\* wrote has the commit's author, a message that starts with the commit's
\* message, and a diff equal to the contents written, byte for byte.
C1_EnvelopeRoundTrip ==
    (am_pc = "done" /\ commit # NoCommit) =>
        /\ result.author = commit.author
        /\ StartsWith(result.message, commit.message)
        /\ result.diff = contents

\* the index of the first line of ls equal to mark, or one past ls
FirstLine(ls, mark) ==
    CHOOSE k \in 1 .. Len(ls) + 1 :
        /\ k <= Len(ls) => ls[k] = mark
        /\ \A j \in 1 .. k - 1 : ls[j] # mark

\* the header lines of the bytes to parse: those before the first blank line
HeaderBlock(bytes) ==
    LET ls == ReadLines(bytes) IN SubSeq(ls, 1, FirstLine(ls, <<NL>>) - 1)

\* the body lines of the bytes to parse: those after the first blank line
InputBody(bytes) ==
    LET ls == ReadLines(bytes)
    IN  SubSeq(ls, FirstLine(ls, <<NL>>) + 1, Len(ls))

\* the header lines have one of that name
HasHeader(hdr, name) ==
    \E k \in 1 .. Len(hdr) : StartsWith(hdr[k], name \o <<":">>)

\* the subject, folded lines included, has '[PATCH' and no '] ' after it
UnclosedTag(hdr) ==
    \E k \in 1 .. Len(hdr) :
        /\ StartsWith(hdr[k], <<"S", "u", "b", "j", "e", "c", "t", ":">>)
        /\ LET text == hdr[k] \o Continued(hdr, k, Len(hdr) + 1)
               tag == Find(text, <<"[", "P", "A", "T", "C", "H">>, 0)
           IN  tag >= 0 /\ Find(text, <<"]", " ">>, tag) < 0

MalformedHeaders(hdr) ==
    \/ ~HasHeader(hdr, <<"F", "r", "o", "m">>)
    \/ ~HasHeader(hdr, <<"S", "u", "b", "j", "e", "c", "t">>)
    \/ UnclosedTag(hdr)

\* the errors the parser raises on malformed headers: the spec's FormatError
FormatErrors == {"AttributeError", "ValueError"}

\* the parser has run and ended
Parsed == am_pc \in {"done", "raised"}

\* C7: on bytes without a From header, without a Subject header, or whose
\* subject has '[PATCH' and no '] ' after it, git_am_patch_split raises an
\* error to its caller and returns no commit, diff or version.
C7_MalformedHeadersRaise ==
    (Parsed /\ MalformedHeaders(HeaderBlock(mbox))) =>
        /\ am_pc = "raised"
        /\ result.status = "raised"
        /\ result.exc \in FormatErrors
        /\ result.author = None /\ result.message = None
        /\ result.diff = None /\ result.version = None

\* C7's case: the subject's patch tag is never closed, and the call raised.
C7_Witness ==
    /\ am_pc = "raised"
    /\ HasHeader(HeaderBlock(mbox), <<"F", "r", "o", "m">>)
    /\ HasHeader(HeaderBlock(mbox), <<"S", "u", "b", "j", "e", "c", "t">>)
    /\ UnclosedTag(HeaderBlock(mbox))
    /\ result.exc = "ValueError"

\* the body lines before the first '---\n' line
MessageRegion(body) == SubSeq(body, 1, FirstLine(body, <<"-", "-", "-", NL>>) - 1)

\* the body lines after the first '---\n' line
AfterDashes(body) == SubSeq(body, FirstLine(body, <<"-", "-", "-", NL>>) + 1, Len(body))

FromFirst(region) == region # <<>> /\ StartsWith(region[1], <<"F", "r", "o", "m", ":", " ">>)

\* the message's first line: the parsed subject and a newline
SubjectLine(bytes) == InitialMessage(ParseMessage(bytes).subject)

\* C9 as claimed: the message is the subject line, a blank line, and the
\* body lines before the first '---\n' line, a leading 'From: ' line left
\* out, whether or not the body starts with a 'From: ' line.
C9_SeparatorAlways ==
    am_pc = "done" =>
        LET region == MessageRegion(InputBody(mbox))
        IN  result.message =
                SubjectLine(mbox) \o <<NL>>
                \o Concat(IF FromFirst(region) THEN Tail(region) ELSE region)

\* C9 amended: with no body line before the first '---\n' line the message
\* is the subject line alone; when the first body line starts with
\* 'From: ' it sets the author (the committer stays the From header), is
\* left out, and the lines after it follow the subject line with no
\* separator added; otherwise the message is the subject line, a blank
\* line, and the body lines before the first '---\n' line.
C9_SeparatorUnlessFrom ==
    am_pc = "done" =>
        LET region == MessageRegion(InputBody(mbox))
            subject == SubjectLine(mbox)
        IN  /\ result.message =
                  IF region = <<>> THEN subject
                  ELSE IF FromFirst(region)
                  THEN subject \o Concat(Tail(region))
                  ELSE subject \o <<NL>> \o Concat(region)
            /\ result.committer = ParseMessage(mbox).from
            /\ FromFirst(region) =>
                  result.author = RStrip(Drop(region[1], 6), Whitespace)
            /\ ~FromFirst(region) => result.author = result.committer

\* C9's case: the body starts with a 'From: ' line and goes on with a
\* line that follows the subject line directly.
C9_Witness ==
    /\ am_pc = "done"
    /\ commit = NoCommit
    /\ LET region == MessageRegion(InputBody(mbox))
       IN  FromFirst(region) /\ Len(region) = 2 /\ region[2] = <<"x", NL>>
    /\ result.message = <<"F", "i", "x", NL, "x", NL>>
    /\ result.author = <<"B", " ", "<", "b", "@", "e", ">">>
    /\ result.committer = <<"A", " ", "<", "a", "@", "e", ">">>

\* C10: with valid headers git_am_patch_split returns and raises nothing;
\* without a '---\n' line the diff is empty and the version None; with a
\* '---\n' line and no '-- \n' line after it the diff is every line after
\* the '---\n' line and the version None; with both markers the version is
\* the line after the '-- \n' line without its newline, or None when no
\* line follows.
C10_MissingMarkers ==
    (Parsed /\ ~MalformedHeaders(HeaderBlock(mbox))) =>
        LET body == InputBody(mbox)
            dashes == FirstLine(body, <<"-", "-", "-", NL>>)
            rest == AfterDashes(body)
            sig == FirstLine(rest, <<"-", "-", " ", NL>>)
        IN  /\ am_pc = "done" /\ result.status = "returned"
            /\ dashes > Len(body) =>
                  result.diff = <<>> /\ result.version = None
            /\ (dashes <= Len(body) /\ sig > Len(rest)) =>
                  result.diff = Concat(rest) /\ result.version = None
            /\ (dashes <= Len(body) /\ sig <= Len(rest)) =>
                  IF sig = Len(rest) THEN result.version = None
                  ELSE \/ result.version \o <<NL>> = rest[sig + 1]
                       \/ /\ result.version = rest[sig + 1]
                          /\ ~EndsWithNewline(result.version)

\* C10's case: a '---\n' line, lines after it, and no '-- \n' line.
C10_Witness ==
    /\ am_pc = "done"
    /\ commit = NoCommit
    /\ LET body == InputBody(mbox)
           rest == AfterDashes(body)
       IN  /\ FirstLine(body, <<"-", "-", "-", NL>>) <= Len(body)
           /\ Len(rest) = 2 /\ FirstLine(rest, <<"-", "-", " ", NL>>) > Len(rest)
           /\ result.diff = Concat(rest)
    /\ result.version = None

====
